---------------------------- MODULE Spec2Model ----------------------------
(***************************************************************************)
(* A model of lottery_app.py: run_single_lottery_pool (the draw over one   *)
(* pool) and run_lottery_by_class (the per-class orchestration).           *)
(*                                                                         *)
(* A table (pandas DataFrame) is a sequence of rows [name, cls]; a cell is *)
(* a sequence of one-character strings, so that str.strip() is computed.   *)
(* random.shuffle and the iteration order of a Python set are              *)
(* nondeterministic choices among all orders.                              *)
(***************************************************************************)
EXTENDS Integers, Sequences, FiniteSets, TLC

\* ------------------------------------------------------------ bounds
\* Most rows of a registration table.
MaxRows == 3
\* Largest quota (num_to_draw, num_per_class).
MaxQuota == 2
\* Longest pinned list handed to run_single_lottery_pool directly.
MaxPinned == 2

\* ------------------------------------------------------------ input cells
A == <<"a">>
B == <<"b">>
C == <<"c">>
Z == <<"z">>
X == <<"X">>
Y == <<"Y">>
Blank == <<>>

\* Names of a pool handed to run_single_lottery_pool directly.
PoolNames == {A, B, C}
\* Raw cells of the uploaded tables: clean, padded, and blank.
NameCells == {A, <<"b", " ">>, <<" ">>}
ClassCells == {X, <<" ", "Y">>}
PrevCells == {<<"a", " ">>, B}
\* Lines of the operator's pinned text.
PinnedLines == {<<" ", "a">>, B, Z}

NameColumn == "name"
ClassColumn == "cls"

\* ------------------------------------------------------------ helpers
Min(a, b) == IF a < b THEN a ELSE b

Range(s) == {s[i] : i \in DOMAIN s}

SeqsUpTo(S, n) == UNION {[1..k -> S] : k \in 0..n}

\* Every order of the elements of a finite set.
Perms(S) == {s \in [1..Cardinality(S) -> S] : \A i, j \in DOMAIN s : s[i] = s[j] => i = j}

\* One fixed enumeration of a set of cells (how an input table lists them).
RECURSIVE Enumerate(_)
Enumerate(S) == IF S = {} THEN <<>>
                ELSE LET e == CHOOSE v \in S : TRUE IN <<e>> \o Enumerate(S \ {e})

\* str.strip(): leading and trailing blanks removed.
RECURSIVE LStrip(_)
LStrip(s) == IF s # <<>> /\ Head(s) = " " THEN LStrip(Tail(s)) ELSE s

RECURSIVE RStrip(_)
RStrip(s) == IF s # <<>> /\ s[Len(s)] = " " THEN RStrip(SubSeq(s, 1, Len(s) - 1)) ELSE s

Strip(s) == RStrip(LStrip(s))

\* df[name_column]: the name cells of a table, in row order.
NameCol(df) == [i \in DOMAIN df |-> df[i].name]

\* Series.unique() / set(): first-seen order.
Unique(s) ==
  LET F[i \in 0..Len(s)] ==
        IF i = 0 THEN <<>>
        ELSE IF \E j \in 1..(i - 1) : s[j] = s[i] THEN F[i - 1]
        ELSE Append(F[i - 1], s[i])
  IN F[Len(s)]

\* df[df[name_column].isin(names)]
IsIn(df, names) == SelectSeq(df, LAMBDA r : r.name \in names)

\* df.drop_duplicates(subset=[name_column]): the first row of each name.
DropDuplicates(df) ==
  LET F[i \in 0..Len(df)] ==
        IF i = 0 THEN <<>>
        ELSE IF \E j \in 1..(i - 1) : df[j].name = df[i].name THEN F[i - 1]
        ELSE Append(F[i - 1], df[i])
  IN F[Len(df)]

\* list[:n] for n > 0
Take(s, n) == SubSeq(s, 1, Min(n, Len(s)))

\* pd.concat(list, ignore_index=True)
RECURSIVE Concat(_)
Concat(dfs) == IF dfs = <<>> THEN <<>> ELSE Head(dfs) \o Concat(Tail(dfs))

\* ------------------------------------------------------------ state
VARIABLES
  mode,                    \* "pool": run_single_lottery_pool called directly; "class": run_lottery_by_class
  pc,                      \* the statement about to run
  given_registrations,     \* the caller's registration table as it was at the call
  given_previous_winners,  \* the caller's previous-winner table as it was at the call
  registrations_df,        \* the caller's registration table (the object the function holds)
  previous_winners_df,     \* the caller's previous-winner table
  reg_columns,             \* registrations_df.columns
  prev_columns,            \* previous_winners_df.columns
  pinned_players,          \* the lines of the pinned text
  num_per_class,
  previous_winners_set,
  pinned_players_set,
  all_class_types,
  class_idx,               \* position of the for loop in all_class_types
  all_winners_list,
  summary_messages,
  registrations_pool_df,   \* run_single_lottery_pool's arguments and locals
  num_to_draw,
  pinned_players_in_pool,
  final_winners,
  eligible_pool,
  backup_pool,
  winners_df,              \* what run_single_lottery_pool returned
  status,
  shuffles,                \* random.shuffle calls of the current run_single_lottery_pool call
  total_shuffles,          \* random.shuffle calls since the entry point was called
  final_results_df,        \* what run_lottery_by_class returned
  summary_message

callerVars == <<given_registrations, given_previous_winners, registrations_df,
                previous_winners_df, reg_columns, prev_columns, pinned_players,
                num_per_class>>
loopVars == <<previous_winners_set, pinned_players_set, all_class_types, class_idx,
              all_winners_list, summary_messages>>
argVars == <<registrations_pool_df, num_to_draw, pinned_players_in_pool>>
localVars == <<final_winners, eligible_pool, backup_pool, shuffles, total_shuffles>>
retVars == <<winners_df, status>>
outVars == <<final_results_df, summary_message>>
vars == <<mode, pc, callerVars, loopVars, argVars, localVars, retVars, outVars>>

\* ------------------------------------------------------------ run_single_lottery_pool
\* The order of the statements of run_single_lottery_pool: the label that
\* follows each one ("call" is the entry).
ShuffleBeforeChecks(label) ==
  CASE label = "call" -> "shuffle"
    [] label = "shuffle" -> "check"
    [] label = "check" -> "init"
    [] label = "init" -> "draw"

PoolStep(label) ==
  CASE label = "call" -> "check"
    [] label = "check" -> "init"
    [] label = "init" -> "shuffle"
    [] label = "shuffle" -> "draw"

CurrentRegistrants(df) == Range(NameCol(df))

InvalidPinned(pinned, registrants) == SelectSeq(pinned, LAMBDA p : p \notin registrants)

NeverExceeds(pinned, q) == FALSE
PinnedExceeds(pinned, q) == Len(pinned) > q

NoInitialWinners(pinned) == <<>>
InitialWinners(pinned) == pinned

EligibleIgnoringPrevious(pool, previous) == pool
EligibleSet(pool, previous) == pool \ previous

BackupSet(pool, previous) == pool \cap previous

WinnersTable(df, winners) == DropDuplicates(IsIn(df, Range(winners)))

StatusNone == [kind |-> "none"]
StatusUnknownPinned(names) == [kind |-> "unknown_pinned", names |-> names]
StatusPinnedExceeds(n, q) == [kind |-> "pinned_exceeds_quota", pinned |-> n, quota |-> q]
StatusPinnedFilled == [kind |-> "pinned_filled"]
StatusSuccess == [kind |-> "success"]

\* return df, status
Return(df, st) ==
  /\ winners_df' = df
  /\ status' = st
  /\ pc' = IF mode = "pool" THEN "done" ELSE "collect"

CheckPinned ==
  /\ pc = "check"
  /\ LET current_registrants == CurrentRegistrants(registrations_pool_df)
         invalid_pinned == InvalidPinned(pinned_players_in_pool, current_registrants)
     IN IF invalid_pinned # <<>>
        THEN Return(<<>>, StatusUnknownPinned(invalid_pinned))
        ELSE IF PinnedExceeds(pinned_players_in_pool, num_to_draw)
        THEN Return(<<>>, StatusPinnedExceeds(Len(pinned_players_in_pool), num_to_draw))
        ELSE /\ pc' = PoolStep("check")
             /\ UNCHANGED retVars
  /\ UNCHANGED <<mode, callerVars, loopVars, argVars, localVars, outVars>>

InitWinners ==
  /\ pc = "init"
  /\ final_winners' = InitialWinners(pinned_players_in_pool)
  /\ LET num_remaining_to_draw == num_to_draw - Len(final_winners')
     IN IF num_remaining_to_draw <= 0
        THEN Return(WinnersTable(registrations_pool_df, final_winners'), StatusPinnedFilled)
        ELSE /\ pc' = PoolStep("init")
             /\ UNCHANGED retVars
  /\ UNCHANGED <<mode, callerVars, loopVars, argVars, eligible_pool, backup_pool,
                 shuffles, total_shuffles, outVars>>

ShufflePools ==
  /\ pc = "shuffle"
  /\ LET pool == CurrentRegistrants(registrations_pool_df) \ Range(final_winners)
     IN /\ eligible_pool' \in Perms(EligibleSet(pool, previous_winners_set))
        /\ backup_pool' \in Perms(BackupSet(pool, previous_winners_set))
  /\ shuffles' = shuffles + 2
  /\ total_shuffles' = total_shuffles + 2
  /\ pc' = PoolStep("shuffle")
  /\ UNCHANGED <<mode, callerVars, loopVars, argVars, final_winners, retVars, outVars>>

DrawWinners ==
  /\ pc = "draw"
  /\ LET num_remaining_to_draw == num_to_draw - Len(final_winners)
         drawn_from_eligible == Take(eligible_pool, num_remaining_to_draw)
         with_eligible == final_winners \o drawn_from_eligible
         num_still_to_draw == num_to_draw - Len(with_eligible)
         drawn_from_backup == Take(backup_pool, num_still_to_draw)
     IN /\ final_winners' = IF num_still_to_draw > 0
                            THEN with_eligible \o drawn_from_backup
                            ELSE with_eligible
        /\ Return(WinnersTable(registrations_pool_df, final_winners'), StatusSuccess)
  /\ UNCHANGED <<mode, callerVars, loopVars, argVars, eligible_pool, backup_pool,
                 shuffles, total_shuffles, outVars>>

\* ------------------------------------------------------------ run_lottery_by_class
ClassCol(df) == [i \in DOMAIN df |-> df[i].cls]

\* df[name_column] = ....str.strip(); then the rows with an empty name are dropped
\* (dropna drops nothing: astype(str) has left no missing value).
CleanNames(df) ==
  SelectSeq([i \in DOMAIN df |-> [df[i] EXCEPT !.name = Strip(@)]],
            LAMBDA r : r.name # Blank)

\* registrations_df[class_column] = ....str.strip()
CleanClasses(df) == [i \in DOMAIN df |-> [df[i] EXCEPT !.cls = Strip(@)]]

\* {p.strip() for p in pinned_players if p.strip()}
PinnedSet(lines) == {Strip(p) : p \in Range(lines)} \ {Blank}

WholeTable(df, class_type) == df
\* registrations_df[registrations_df[class_column] == class_type]
ClassRegistrations(df, class_type) == SelectSeq(df, LAMBDA r : r.cls = class_type)

MissingNameColumn == <<[tag |-> "missing_name_column"]>>
MissingClassColumn == <<[tag |-> "missing_class_column"]>>
NoneDrawn == <<[tag |-> "none_drawn"]>>
DrawnMessage(class_type, n, target) ==
  [tag |-> "drawn", cls |-> class_type, n |-> n, target |-> target]
FailedMessage(class_type, st) == [tag |-> "failed", cls |-> class_type, status |-> st]

ValidateColumns ==
  /\ pc = "columns"
  /\ IF NameColumn \notin reg_columns \/ NameColumn \notin prev_columns
     THEN /\ final_results_df' = <<>>
          /\ summary_message' = MissingNameColumn
          /\ pc' = "done"
     ELSE IF ClassColumn \notin reg_columns
     THEN /\ final_results_df' = <<>>
          /\ summary_message' = MissingClassColumn
          /\ pc' = "done"
     ELSE /\ pc' = "clean"
          /\ UNCHANGED outVars
  /\ UNCHANGED <<mode, callerVars, loopVars, argVars, localVars, retVars>>

CleanData ==
  /\ pc = "clean"
  /\ registrations_df' = CleanClasses(CleanNames(registrations_df))
  /\ previous_winners_df' = CleanNames(previous_winners_df)
  /\ previous_winners_set' = Range(Unique(NameCol(previous_winners_df')))
  /\ pinned_players_set' = PinnedSet(pinned_players)
  /\ all_class_types' = Unique(ClassCol(registrations_df'))
  /\ all_winners_list' = <<>>
  /\ summary_messages' = <<>>
  /\ class_idx' = 1
  /\ pc' = "loop"
  /\ UNCHANGED <<mode, given_registrations, given_previous_winners, reg_columns,
                 prev_columns, pinned_players, num_per_class, argVars, localVars,
                 retVars, outVars>>

\* One iteration of the for loop, up to the call of run_single_lottery_pool.
NextClass ==
  /\ pc = "loop"
  /\ class_idx <= Len(all_class_types)
  /\ LET class_type == all_class_types[class_idx]
         class_registrations_df == ClassRegistrations(registrations_df, class_type)
     IN /\ registrations_pool_df' = class_registrations_df
        /\ pinned_players_in_pool' \in
             Perms(pinned_players_set \cap Range(NameCol(class_registrations_df)))
  /\ num_to_draw' = num_per_class
  /\ final_winners' = <<>>
  /\ eligible_pool' = <<>>
  /\ backup_pool' = <<>>
  /\ shuffles' = 0
  /\ winners_df' = <<>>
  /\ status' = StatusNone
  /\ pc' = PoolStep("call")
  /\ UNCHANGED <<mode, callerVars, loopVars, total_shuffles, outVars>>

\* The rest of the iteration, after run_single_lottery_pool has returned.
CollectClass ==
  /\ pc = "collect"
  /\ LET class_type == all_class_types[class_idx]
     IN IF winners_df # <<>>
        THEN /\ all_winners_list' = Append(all_winners_list, winners_df)
             /\ summary_messages' =
                  Append(summary_messages,
                         DrawnMessage(class_type, Len(winners_df), num_per_class))
        ELSE /\ summary_messages' = Append(summary_messages, FailedMessage(class_type, status))
             /\ UNCHANGED all_winners_list
  /\ class_idx' = class_idx + 1
  /\ pc' = "loop"
  /\ UNCHANGED <<mode, callerVars, previous_winners_set, pinned_players_set,
                 all_class_types, argVars, localVars, retVars, outVars>>

ConcatResults ==
  /\ pc = "loop"
  /\ class_idx > Len(all_class_types)
  /\ IF all_winners_list = <<>>
     THEN /\ final_results_df' = <<>>
          /\ summary_message' = NoneDrawn
     ELSE /\ final_results_df' = Concat(all_winners_list)
          /\ summary_message' = summary_messages
  /\ pc' = "done"
  /\ UNCHANGED <<mode, callerVars, loopVars, argVars, localVars, retVars>>

\* ------------------------------------------------------------ the calls
Rows(names, classes) == [name : names, cls : classes]

PoolTables == SeqsUpTo(Rows(PoolNames, {X}), MaxRows)
RegTables == SeqsUpTo(Rows(NameCells, ClassCells), MaxRows)
PrevTables == {Enumerate({[name |-> c] : c \in S}) : S \in SUBSET PrevCells}
\* pinned_players_str.strip().split('\n'): an empty text is one empty line.
PinnedTexts == {IF S = {} THEN <<Blank>> ELSE Enumerate(S) : S \in SUBSET PinnedLines}

AllColumns == <<{NameColumn, ClassColumn}, {NameColumn}>>
ColumnCases == {AllColumns, <<{ClassColumn}, {NameColumn}>>,
                <<{NameColumn, ClassColumn}, {}>>, <<{NameColumn}, {NameColumn}>>}

Idle ==
  /\ final_winners = <<>>
  /\ eligible_pool = <<>>
  /\ backup_pool = <<>>
  /\ winners_df = <<>>
  /\ status = StatusNone
  /\ shuffles = 0
  /\ total_shuffles = 0
  /\ final_results_df = <<>>
  /\ summary_message = <<>>
  /\ all_class_types = <<>>
  /\ class_idx = 1
  /\ all_winners_list = <<>>
  /\ summary_messages = <<>>
  /\ pinned_players_set = {}

\* run_single_lottery_pool(registrations_pool_df, previous_winners_set, num_to_draw,
\*                         pinned_players_in_pool, name_column)
InitPool ==
  /\ mode = "pool"
  /\ pc = PoolStep("call")
  /\ registrations_pool_df \in PoolTables
  /\ previous_winners_set \in SUBSET PoolNames
  /\ num_to_draw \in 0..MaxQuota
  /\ pinned_players_in_pool \in SeqsUpTo(PoolNames, MaxPinned)
  /\ given_registrations = <<>>
  /\ given_previous_winners = <<>>
  /\ registrations_df = <<>>
  /\ previous_winners_df = <<>>
  /\ reg_columns = {NameColumn}
  /\ prev_columns = {}
  /\ pinned_players = <<>>
  /\ num_per_class = 0
  /\ Idle

\* run_lottery_by_class(registrations_df, previous_winners_df, num_per_class,
\*                      pinned_players, name_column, class_column)
\* A table that lacks a column carries its cells under another header; the
\* arguments a rejected call never reads are fixed.
InitClass ==
  /\ mode = "class"
  /\ pc = "columns"
  /\ registrations_df \in RegTables
  /\ previous_winners_df \in PrevTables
  /\ given_registrations = registrations_df
  /\ given_previous_winners = previous_winners_df
  /\ \E columns \in ColumnCases :
       /\ reg_columns = columns[1]
       /\ prev_columns = columns[2]
       /\ pinned_players \in IF columns = AllColumns THEN PinnedTexts ELSE {<<Blank>>}
       /\ num_per_class \in IF columns = AllColumns THEN 1..MaxQuota ELSE {1}
  /\ registrations_pool_df = <<>>
  /\ previous_winners_set = {}
  /\ num_to_draw = 0
  /\ pinned_players_in_pool = <<>>
  /\ Idle

Init == InitPool \/ InitClass

Next ==
  \/ CheckPinned
  \/ InitWinners
  \/ ShufflePools
  \/ DrawWinners
  \/ ValidateColumns
  \/ CleanData
  \/ NextClass
  \/ CollectClass
  \/ ConcatResults

Spec == Init /\ [][Next]_vars

\* ------------------------------------------------------------ properties
\* run_single_lottery_pool has returned (to its direct caller or to the loop).
PoolReturned == (mode = "pool" /\ pc = "done") \/ pc = "collect"

\* run_lottery_by_class has returned.
ClassReturned == mode = "class" /\ pc = "done"

ColumnsPresent == <<reg_columns, prev_columns>> = AllColumns

Registrants == CurrentRegistrants(registrations_pool_df)
Pinned == Range(pinned_players_in_pool)
ValidPinned == Pinned \subseteq Registrants /\ Len(pinned_players_in_pool) <= num_to_draw
Winners == Range(NameCol(winners_df))
Eligible == (Registrants \ Pinned) \ previous_winners_set
Backup == (Registrants \ Pinned) \cap previous_winners_set

NoRepeat(s) == \A i, j \in DOMAIN s : s[i] = s[j] => i = j

\* The same notions read off the tables the caller handed to run_lottery_by_class.
GivenNames == {Strip(r.name) : r \in Range(given_registrations)} \ {Blank}
GivenGroups == {Strip(r.cls) : r \in {q \in Range(given_registrations) : Strip(q.name) # Blank}}
GivenPrevious == {Strip(r.name) : r \in Range(given_previous_winners)} \ {Blank}
GivenPinned == PinnedSet(pinned_players)
GroupNames(g) ==
  {Strip(r.name) : r \in {q \in Range(given_registrations) : Strip(q.cls) = g}} \ {Blank}
GroupRows(g) == SelectSeq(final_results_df, LAMBDA r : r.cls = g)
GroupWinners(g) == Range(NameCol(GroupRows(g)))
GroupFails(g) == Cardinality(GivenPinned \cap GroupNames(g)) > num_per_class

\* C1: whenever the pinned list is valid (its names are registrants of the pool and
\* it is no longer than the quota), every pinned name is in the winners table that
\* run_single_lottery_pool returns, whatever the two shuffles produced.
C1_PinnedAlwaysWin == PoolReturned /\ ValidPinned => Pinned \subseteq Winners

C1_Witness ==
  /\ PoolReturned
  /\ ValidPinned
  /\ Pinned # {}
  /\ shuffles = 2
  /\ status = StatusSuccess
  /\ Winners \ Pinned # {}

\* C2: with a valid pinned list, the winners table has at most num_to_draw rows and
\* exactly min(num_to_draw, number of distinct registrant names) rows.
C2_WinnerCount ==
  PoolReturned /\ ValidPinned =>
    /\ Len(winners_df) <= num_to_draw
    /\ Len(winners_df) = Min(num_to_draw, Cardinality(Registrants))

\* C3: eligible-first. A backup name (a registrant outside the pinned list who is a
\* previous winner) is among the winners only if every eligible name is, and there
\* is none when the eligible names cover the quota left after the pinned ones.
C3_EligibleFirst ==
  PoolReturned =>
    /\ Winners \cap Backup # {} => Eligible \subseteq Winners
    /\ Cardinality(Eligible) >= num_to_draw - Len(pinned_players_in_pool)
         => Winners \cap Backup = {}

C3_Witness ==
  /\ PoolReturned
  /\ status = StatusSuccess
  /\ Eligible # {}
  /\ Winners \cap Backup # {}
  /\ Backup \ Winners # {}

\* C4: no name appears twice in the winners table of run_single_lottery_pool, nor
\* in the concatenated table run_lottery_by_class returns.
C4_NoNameTwice ==
  /\ PoolReturned => NoRepeat(NameCol(winners_df))
  /\ ClassReturned => NoRepeat(NameCol(final_results_df))

\* C5: a pinned name that is not a (cleaned) registrant name rejects the whole draw:
\* no winners table, and an error listing every such name; for the direct call of
\* run_single_lottery_pool and for the draw started through run_lottery_by_class.
C5_UnknownPinnedRejects ==
  /\ mode = "pool" /\ PoolReturned /\ ~(Pinned \subseteq Registrants) =>
       /\ winners_df = <<>>
       /\ status = StatusUnknownPinned(InvalidPinned(pinned_players_in_pool, Registrants))
  /\ ClassReturned /\ ColumnsPresent /\ ~(GivenPinned \subseteq GivenNames) =>
       /\ final_results_df = <<>>
       /\ summary_message # summary_messages

\* C6: the status tells the outcomes apart: plain success is returned only when the
\* quota was filled, and filled from pinned and eligible names alone (a shortfall or
\* a fill from the backup pool is reported as such).
C6_StatusTellsOutcome ==
  PoolReturned /\ status = StatusSuccess =>
    /\ Len(winners_df) = num_to_draw
    /\ Winners \cap Backup = {}

\* C7: grouped mode without pinned names: for each group g the returned table holds
\* exactly min(num_per_class, registrants of g) rows of g, all of them registrants
\* of g, and a registrant counts as backup exactly when the name is in the one
\* previous-winner set built from the whole previous-winner table.
C7_GroupedDraw ==
  ClassReturned /\ ColumnsPresent /\ GivenPinned = {} =>
    /\ \A i \in DOMAIN final_results_df : final_results_df[i].cls \in GivenGroups
    /\ \A g \in GivenGroups :
         /\ Len(GroupRows(g)) = Min(num_per_class, Cardinality(GroupNames(g)))
         /\ GroupWinners(g) \subseteq GroupNames(g)
         /\ GroupWinners(g) \cap GivenPrevious # {}
              => GroupNames(g) \ GivenPrevious \subseteq GroupWinners(g)
         /\ Cardinality(GroupNames(g) \ GivenPrevious) >= num_per_class
              => GroupWinners(g) \cap GivenPrevious = {}

C7_Witness ==
  /\ ClassReturned
  /\ ColumnsPresent
  /\ GivenPinned = {}
  /\ Cardinality(GivenGroups) = 2
  /\ \E g \in GivenGroups :
       /\ Cardinality(GroupNames(g)) > num_per_class
       /\ GroupNames(g) \cap GivenPrevious # {}
       /\ GroupNames(g) \ GivenPrevious # {}
  /\ \E g \in GivenGroups :
       /\ GroupWinners(g) \cap GivenPrevious # {}
       /\ Cardinality(GroupNames(g)) <= num_per_class

\* C8: per-group failure isolation. A group whose registered pinned names outnumber
\* num_per_class contributes no row and gets a failure entry in the report; every
\* other group is drawn as it would be alone (its count, its pinned names, its own
\* registrants) and reported; when no group yields a winner the result is the empty
\* table with the explanatory message.
C8_FailureIsolation ==
  ClassReturned /\ ColumnsPresent =>
    /\ \A g \in GivenGroups :
         LET pinned_in_group == GivenPinned \cap GroupNames(g)
         IN IF GroupFails(g)
            THEN /\ GroupRows(g) = <<>>
                 /\ \E i \in DOMAIN summary_messages :
                      summary_messages[i] =
                        FailedMessage(g, StatusPinnedExceeds(Cardinality(pinned_in_group),
                                                             num_per_class))
            ELSE /\ Len(GroupRows(g)) = Min(num_per_class, Cardinality(GroupNames(g)))
                 /\ pinned_in_group \subseteq GroupWinners(g)
                 /\ GroupWinners(g) \subseteq GroupNames(g)
                 /\ \E i \in DOMAIN summary_messages :
                      summary_messages[i] =
                        DrawnMessage(g, Len(GroupRows(g)), num_per_class)
    /\ Len(summary_messages) = Cardinality(GivenGroups)
    /\ IF \A g \in GivenGroups : GroupFails(g)
       THEN final_results_df = <<>> /\ summary_message = NoneDrawn
       ELSE summary_message = summary_messages

C8_Witness ==
  /\ ClassReturned
  /\ ColumnsPresent
  /\ \E g \in GivenGroups : GroupFails(g)
  /\ \E g \in GivenGroups : ~GroupFails(g) /\ GroupRows(g) # <<>>

\* C9: a draw has no side effect on its inputs: when run_lottery_by_class has
\* returned, both tables of the caller hold the rows and cells they held at the call.
C9_InputsUntouched ==
  ClassReturned =>
    /\ registrations_df = given_registrations
    /\ previous_winners_df = given_previous_winners

\* C10: validation precedes randomness. A shuffle has happened in a call of
\* run_single_lottery_pool only if its pinned list passed both checks, and in
\* run_lottery_by_class only if no column is missing; a rejected scope has shuffled
\* nothing and returns the empty table.
C10_ValidationBeforeShuffle ==
  /\ shuffles > 0 => ValidPinned
  /\ mode = "class" /\ total_shuffles > 0 => ColumnsPresent
  /\ status.kind \in {"unknown_pinned", "pinned_exceeds_quota"} =>
       shuffles = 0 /\ winners_df = <<>>
  /\ PoolReturned /\ ~ValidPinned =>
       status.kind \in {"unknown_pinned", "pinned_exceeds_quota"}
  /\ ClassReturned /\ ~ColumnsPresent =>
       /\ total_shuffles = 0
       /\ final_results_df = <<>>
       /\ summary_message \in {MissingNameColumn, MissingClassColumn}

C10_Witness ==
  /\ pc = "collect"
  /\ status.kind = "pinned_exceeds_quota"
  /\ shuffles = 0
  /\ winners_df = <<>>
  /\ all_winners_list # <<>>

=============================================================================
